---- MODULE Spec2Model ----
(***************************************************************************)
(* The file-to-PDF conversion service of CursorToolbox: the PDF controller *)
(* (convertToPDF, getPDF, deleteConversion), the server converter          *)
(* (convertImageToPDF) and the device converter (convertImageToPDFClient). *)
(*                                                                         *)
(* Node runs one handler continuation at a time, so every action below is  *)
(* one run-to-completion block of the source: the code between two awaits, *)
(* or one event callback.                                                  *)
(***************************************************************************)
EXTENDS Integers, FiniteSets, Sequences, TLC

\* ------------------------------------------------------------------ bounds
MaxReqs == 2
MaxRecords == 2
MaxClock == 1
MaxBytes == 4

\* ------------------------------------------------------- program constants
MinPdfSize == 100
PageWidth == 595
PageHeight == 842
ClientPageWidth == 595
ClientPageHeight == 842
MaxCanvasWidth == 2480
MaxCanvasHeight == 3508

\* ------------------------------------------------------------- value sets
Reqs == 1..MaxReqs
Ids == 1..MaxRecords
Paths == 0..MaxClock
Users == {"u1", "u2"}
NoUser == "none"
Callers == Users \cup {NoUser}
\* stats.size of a PDF pdfkit produced, and of one cut short
PdfSize == 2 * MinPdfSize
TruncatedPdfSize == MinPdfSize - 1
\* declared MIME types of an upload that passed the multer filter
Mimes == {"image/jpeg", "application/pdf"}
\* what the bytes really are, as sharp's metadata() detects it
Formats == {"jpeg", "heic", "heic_bad", "corrupt"}

\* findUnique's null
Null == [id |-> 0, userId |-> NoUser, pdfPath |-> 0, createdAt |-> 0]
Idle == [kind |-> "idle"]

VARIABLES
  records,       \* the FileConversion table: rows [id, userId, pdfPath, createdAt]
  nextId,        \* the next fresh record id
  files,         \* UPLOAD_DIR/pdfs: path -> size in bytes, 0 when absent
  now,           \* Date.now(), in milliseconds
  req,           \* the requests in flight, one per slot
  layout,        \* one image and the page geometry each converter gives it
  job,           \* one upload and what convertToPDF makes of it
  gate,          \* one request on its way through the PDF router
  codec,         \* one byte sequence through the device's base64 helpers
  session        \* the mobile client: AuthContext state and AsyncStorage

vars == <<records, nextId, files, now, req, layout, job, gate, codec, session>>

\* ---------------------------------------------------- rational arithmetic
\* The layout code works on JavaScript numbers; here a number is the exact
\* fraction <<numerator, denominator>> in lowest terms, denominator > 0.
RECURSIVE GCD(_, _)
GCD(a, b) == IF b = 0 THEN a ELSE GCD(b, a % b)

Abs(n) == IF n < 0 THEN -n ELSE n

Rat(n, d) == LET g == GCD(Abs(n), d) IN <<n \div g, d \div g>>

Whole(n) == <<n, 1>>

RatMul(p, q) ==
  LET g1 == GCD(Abs(p[1]), q[2])
      g2 == GCD(Abs(q[1]), p[2])
  IN  Rat((p[1] \div g1) * (q[1] \div g2), (p[2] \div g2) * (q[2] \div g1))

RatDiv(p, q) == RatMul(p, <<q[2], q[1]>>)

RatAdd(p, q) ==
  LET g == GCD(p[2], q[2])
  IN  Rat(p[1] * (q[2] \div g) + q[1] * (p[2] \div g), (p[2] \div g) * q[2])

RatSub(p, q) == RatAdd(p, <<-q[1], q[2]>>)

RatLeq(p, q) == p[1] * q[2] <= q[1] * p[2]

RatMin(p, q) == IF RatLeq(p, q) THEN p ELSE q

\* Math.round of a positive fraction
Round(p) == (2 * p[1] + p[2]) \div (2 * p[2])

\* ------------------------------------------------------------ page layout
NoGeometry ==
  [drawn |-> FALSE, imageWidth |-> 0, imageHeight |-> 0,
   pageWidth |-> 0, pageHeight |-> 0, scale |-> Whole(0),
   scaledWidth |-> Whole(0), scaledHeight |-> Whole(0), x |-> Whole(0), y |-> Whole(0)]

\* sharp's resize(2480, 3508, {fit: 'inside', withoutEnlargement: true}):
\* the pixel size of processedImage for a source of w x h pixels.
sharpResize(w, h) ==
  LET f == RatMin(Rat(MaxCanvasWidth, w), Rat(MaxCanvasHeight, h))
      px(n) == LET v == Round(RatMul(Whole(n), f)) IN IF v < 1 THEN 1 ELSE v
  IN  IF RatLeq(Whole(1), f)
        THEN [width |-> w, height |-> h]
        ELSE [width |-> px(w), height |-> px(h)]

\* The image as drawn: scaled by `scale` on both axes and centred.
Draw(imageWidth, imageHeight, pageWidth, pageHeight, scaleW, scaleH) ==
  LET scaledWidth == RatMul(Whole(imageWidth), scaleW)
      scaledHeight == RatMul(Whole(imageHeight), scaleH)
  IN  [drawn |-> TRUE, imageWidth |-> imageWidth, imageHeight |-> imageHeight,
       pageWidth |-> pageWidth, pageHeight |-> pageHeight, scale |-> scaleW,
       scaledWidth |-> scaledWidth, scaledHeight |-> scaledHeight,
       x |-> RatDiv(RatSub(Whole(pageWidth), scaledWidth), Whole(2)),
       y |-> RatDiv(RatSub(Whole(pageHeight), scaledHeight), Whole(2))]

\* the scale of the height alone
ServerScaleHeightOnly(imageWidth, imageHeight) == Rat(PageHeight, imageHeight)

ServerScale(imageWidth, imageHeight) ==
  LET scaleX == Rat(PageWidth, imageWidth)
      scaleY == Rat(PageHeight, imageHeight)
  IN  RatMin(scaleX, scaleY)

\* each axis stretched to the page on its own
ServerGeometryStretched(imageWidth, imageHeight) ==
  Draw(imageWidth, imageHeight, PageWidth, PageHeight,
       Rat(PageWidth, imageWidth), Rat(PageHeight, imageHeight))

\* drawn at the page's origin instead of its centre
ServerGeometryTopLeft(imageWidth, imageHeight) ==
  [Draw(imageWidth, imageHeight, PageWidth, PageHeight,
        ServerScale(imageWidth, imageHeight),
        ServerScale(imageWidth, imageHeight))
     EXCEPT !.x = Whole(0), !.y = Whole(0)]

\* convertImageToPDF's layout: Math.min(scaleX, scaleY), no cap at 1.
ServerGeometry(imageWidth, imageHeight) ==
  Draw(imageWidth, imageHeight, PageWidth, PageHeight,
       ServerScale(imageWidth, imageHeight),
       ServerScale(imageWidth, imageHeight))

\* convertImageToPDFClient, lines 102-121.
ClientGeometry(imageWidth, imageHeight) ==
  LET scale == RatMin(RatMin(Rat(ClientPageWidth, imageWidth),
                             Rat(ClientPageHeight, imageHeight)), Whole(1))
  IN  Draw(imageWidth, imageHeight, ClientPageWidth, ClientPageHeight,
           scale, scale)

\* ---------------------------------------------------------- error messages
\* An Error's message is a sequence of pieces of text: the literal parts of
\* the template strings and the library messages interpolated into them.
\* messages sharp rejects with
SharpMessages == {"Input buffer contains unsupported image format",
                  "heif: Unsupported feature: Unsupported codec",
                  "source: bad seek"}
\* messages heic-convert rejects with
HeicMessages == {"input buffer is not a HEIC image", "HEIF image not found"}
\* what doc.image throws, and what pdfkit's 'error' event carries
ImageMessage == "Unknown image format."
StreamMessage == "write after end"

\* the texts String.prototype.includes looks for, and the pieces of text of
\* this module that contain one of them (the match is case sensitive)
Needles == {"heif", "heic", "decoding plugin", "bad seek"}
Substrings == {<<"heif: Unsupported feature: Unsupported codec", "heif">>,
               <<"source: bad seek", "bad seek">>}

includes(message, needle) ==
  \E i \in DOMAIN message : <<message[i], needle>> \in Substrings

HeicAdvice == "HEIC/HEIF format not supported. Convert to JPEG in Photos app first"

\* catch (heicError), lines 69-72
heicCatch(message) ==
  <<"Failed to convert HEIC image: ">> \o message \o
  <<". This may indicate a corrupted HEIC file.">>

\* catch (sharpError), lines 81-99
sharpCatch(message) ==
  IF \E needle \in Needles : includes(message, needle)
    THEN <<HeicAdvice>>
    ELSE <<"Image processing failed: ">> \o message

\* catch (error), lines 204-212
convertCatch(message) == <<"Failed to convert image to PDF: ">> \o message

\* ------------------------------------------------------------------ decode
\* An uploaded buffer, by what the libraries make of it:
\*   metadata     "ok", or the message sharp(imageBuffer).metadata() rejects with
\*   format       metadata.format
\*   heicConvert  "ok", or the message heicConvert rejects with
\*   resize       "ok", or the message sharp's resize/jpeg/toBuffer rejects with
\*   width,height sharp(processedImage).metadata(); 0 when zero or missing
\*   pdfkit       what pdfkit does with the image
DefaultWidth == 2480
DefaultHeight == 3508

IsHeicNever(format) == FALSE

IsHeic(format) == format = "heic" \/ format = "heif"

\* convertImageToPDF from its entry to the dimensions of line 104: the calls
\* made on the buffers, and the image handed on or the Error thrown.
convertImageToPDF_decode(b) ==
  LET call(fn, buffer) == [fn |-> fn, buffer |-> buffer]
      failed(calls, stage, message) ==
        [ok |-> FALSE, calls |-> calls, stage |-> stage,
         message |-> convertCatch(sharpCatch(message)),
         imageWidth |-> 0, imageHeight |-> 0]
      decoded(calls) ==
        [ok |-> TRUE, calls |-> calls, stage |-> "none", message |-> <<>>,
         imageWidth |-> IF b.width = 0 THEN DefaultWidth ELSE b.width,
         imageHeight |-> IF b.height = 0 THEN DefaultHeight ELSE b.height]
      c1 == <<call("metadata", "imageBuffer")>>
      c2 == Append(c1, call("heicConvert", "imageBuffer"))
      c3 == Append(c2, call("resize", "jpegBuffer"))
      c4 == Append(c1, call("resize", "imageBuffer"))
  IN  IF b.metadata # "ok" THEN failed(c1, "decode", <<b.metadata>>)
      ELSE IF IsHeic(b.format)
        THEN IF b.heicConvert # "ok"
               THEN failed(c2, "heic", heicCatch(<<b.heicConvert>>))
             ELSE IF b.resize # "ok"
               THEN failed(c3, "heic", heicCatch(<<b.resize>>))
             ELSE decoded(c3)
      ELSE IF b.resize # "ok" THEN failed(c4, "decode", <<b.resize>>)
      ELSE decoded(c4)

\* mimeType.startsWith('image/'), over the types of this module
startsWithImage(mimeType) ==
  mimeType \in {"image/jpeg", "image/jpg", "image/png", "image/gif",
                "image/webp", "image/heic", "image/heif", "image/tiff"}

\* the format a declared type names
DeclaredFormat(mimeType) ==
  IF mimeType \in {"image/heic", "image/heif"} THEN "heic" ELSE "jpeg"

\* a decoder chosen by the declared type, not by the bytes
decodeByDeclaredType(b, mimeType) ==
  convertImageToPDF_decode([b EXCEPT !.format = DeclaredFormat(mimeType)])

convertDocumentToPDF_decode(b, mimeType) ==
  IF startsWithImage(mimeType)
    THEN convertImageToPDF_decode(b)
    ELSE [ok |-> FALSE, calls |-> <<>>, stage |-> "mime",
          message |-> <<"Unsupported file type: ", mimeType>>,
          imageWidth |-> 0, imageHeight |-> 0]

\* ---------------------------------------------------------------- answers
\* What convertToPDF sends: the status, the keys of the JSON body, and the
\* body's error text.
Unsupported ==
  [status |-> 400, keys |-> {"error", "receivedType", "supportedTypes"},
   error |-> <<"Unsupported file type">>]

Failure(message) ==
  [status |-> 500, keys |-> {"error"}, error |-> message]

Success ==
  [status |-> 200, keys |-> {"message", "conversion"}, error |-> <<>>]

\* the promise of lines 165-192 rejected by the timer, by pdfkit's 'error'
TimeoutMessage == convertCatch(<<"PDF creation timeout after 10 seconds">>)

PdfkitError(message) == convertCatch(<<message>>)

\* doc.image throws, lines 150-159
ImageError(message) == convertCatch(<<"Failed to add image to PDF: ", message>>)

\* ----------------------------------------------------------------- helpers
findUnique(id) ==
  IF \E c \in records : c.id = id
    THEN CHOOSE c \in records : c.id = id
    ELSE Null

existsSync(path) == files[path] > 0

unlinked(path) == [files EXCEPT ![path] = 0]

deleted(id) == {c \in records : c.id # id}

IsOwnerAlways(conversion, user) == TRUE

IsOwner(conversion, user) == conversion.userId = user

TooSmallNever(size) == FALSE

TooSmall(size) == size < MinPdfSize

ShouldPurgeAlways(statusCode, streamEnded, hasStreamError) == TRUE

ShouldPurgeNever(statusCode, streamEnded, hasStreamError) == FALSE

ShouldPurge(statusCode, streamEnded, hasStreamError) ==
  statusCode = 200 /\ streamEnded /\ ~hasStreamError

IsRecordNotFoundNever(code) == FALSE

IsRecordNotFound(code) == code = "P2025"

\* A request whose handlers have all run: what the client got.
\*   rejected    a JSON answer, no PDF content
\*   delivered   the whole PDF, response finished, purge carried out
\*   streamError the read stream failed
\*   closed      the client went away before the response finished
Answered(kind, user, id, code, result) ==
  [kind |-> kind, pc |-> "done", user |-> user, id |-> id, status |-> code,
   result |-> result]

\* Slots are interchangeable: a new request takes the lowest idle one.
Free(r) ==
  /\ req[r].kind = "idle"
  /\ \A s \in Reqs : s < r => req[s].kind # "idle"

\* ------------------------------------------------------------------ getPDF
\* The handler up to the resolution of findUnique.
getPDF_findUnique(r) ==
  /\ Free(r)
  /\ \E user \in Callers, id \in Ids :
       IF user = NoUser
         THEN req' = [req EXCEPT ![r] =
                Answered("get", user, id, 401, "rejected")]
         ELSE req' = [req EXCEPT ![r] =
                [kind |-> "get", pc |-> "serve", user |-> user, id |-> id,
                 conversion |-> findUnique(id), status |-> 200,
                 headersSent |-> FALSE, sent |-> FALSE, opened |-> FALSE,
                 streamEnded |-> FALSE, hasStreamError |-> FALSE,
                 resEnded |-> FALSE]]
  /\ UNCHANGED <<layout, job, gate, codec, session, records, nextId, files, now>>

Answer(q, code) == Answered(q.kind, q.user, q.id, code, "rejected")

\* The continuation after findUnique, down to fileStream.pipe(res).
getPDF_serve(r) ==
  /\ req[r].kind = "get" /\ req[r].pc = "serve"
  /\ LET q == req[r]
         c == q.conversion
     IN  req' = [req EXCEPT ![r] =
           IF c = Null THEN Answer(q, 404)
           ELSE IF ~IsOwner(c, q.user) THEN Answer(q, 403)
           ELSE IF ~existsSync(c.pdfPath) THEN Answer(q, 404)
           ELSE IF TooSmall(files[c.pdfPath]) THEN Answer(q, 500)
           ELSE [q EXCEPT !.pc = "stream"]]
  /\ UNCHANGED <<layout, job, gate, codec, session, records, nextId, files, now>>

\* fs.createReadStream opens the file asynchronously; a file unlinked since
\* existsSync makes the stream emit 'error' (ENOENT) before any data.
fileStream_open(r) ==
  /\ req[r].kind = "get" /\ req[r].pc = "stream"
  /\ ~req[r].opened /\ ~req[r].hasStreamError
  /\ existsSync(req[r].conversion.pdfPath)
  /\ req' = [req EXCEPT ![r].opened = TRUE]
  /\ UNCHANGED <<layout, job, gate, codec, session, records, nextId, files, now>>

\* pipe writes the first chunk: the 200 header and part of the body go out.
fileStream_data(r) ==
  /\ req[r].kind = "get" /\ req[r].pc = "stream"
  /\ req[r].opened /\ ~req[r].sent /\ ~req[r].hasStreamError
  /\ req' = [req EXCEPT ![r].headersSent = TRUE, ![r].sent = TRUE]
  /\ UNCHANGED <<layout, job, gate, codec, session, records, nextId, files, now>>

\* 'end': the listener of line 232 runs, then pipe's own listener ends res.
fileStream_end(r) ==
  /\ req[r].kind = "get" /\ req[r].pc = "stream"
  /\ req[r].sent /\ ~req[r].streamEnded /\ ~req[r].hasStreamError
  /\ req' = [req EXCEPT ![r].streamEnded = TRUE, ![r].resEnded = TRUE]
  /\ UNCHANGED <<layout, job, gate, codec, session, records, nextId, files, now>>

\* 'error': the open fails (file gone), a read fails, or the close after
\* 'end' fails. pipe does not end res on a source error.
fileStream_error(r) ==
  /\ req[r].kind = "get" /\ req[r].pc = "stream"
  /\ ~req[r].hasStreamError
  /\ req[r].opened \/ ~existsSync(req[r].conversion.pdfPath)
  /\ LET q == [req[r] EXCEPT !.hasStreamError = TRUE]
     IN  req' = [req EXCEPT ![r] =
           IF ~q.headersSent
             THEN [q EXCEPT !.status = 500, !.headersSent = TRUE,
                            !.resEnded = TRUE]
             ELSE q]
  /\ UNCHANGED <<layout, job, gate, codec, session, records, nextId, files, now>>

\* What happened on the wire: the whole file went out under status 200.
WholeFileSent(q) == q.status = 200 /\ q.streamEnded /\ ~q.hasStreamError

\* res 'finish': the whole response was handed to the socket.
res_finish(r) ==
  /\ req[r].kind = "get" /\ req[r].pc = "stream"
  /\ req[r].resEnded
  /\ LET q == req[r]
         path == q.conversion.pdfPath
     IN  IF ShouldPurge(q.status, q.streamEnded, q.hasStreamError)
           THEN /\ files' = IF existsSync(path) THEN unlinked(path) ELSE files
                /\ req' = [req EXCEPT ![r].pc = "purge"]
           ELSE /\ files' = files
                /\ req' = [req EXCEPT ![r] =
                     Answered("get", q.user, q.id, q.status,
                              IF WholeFileSent(q) THEN "delivered"
                                                  ELSE "streamError")]
  /\ UNCHANGED <<layout, job, gate, codec, session, records, nextId, now>>

\* res 'close' without 'finish': the client went away mid-delivery.
res_close(r) ==
  /\ req[r].kind = "get" /\ req[r].pc = "stream"
  /\ req' = [req EXCEPT ![r] =
       Answered("get", @.user, @.id, @.status, "closed")]
  /\ UNCHANGED <<layout, job, gate, codec, session, records, nextId, files, now>>

\* prisma.fileConversion.delete of the finish handler settles; a rejection
\* (P2025: the record is already gone) is caught and logged.
purge_settle(r) ==
  /\ req[r].kind = "get" /\ req[r].pc = "purge"
  /\ records' = deleted(req[r].id)
  /\ req' = [req EXCEPT ![r] =
       Answered("get", @.user, @.id, @.status, "delivered")]
  /\ UNCHANGED <<layout, job, gate, codec, session, nextId, files, now>>

\* -------------------------------------------------------- deleteConversion
\* The handler up to the resolution of findUnique.
deleteConversion_findUnique(r) ==
  /\ Free(r)
  /\ \E user \in Callers, id \in Ids :
       req' = [req EXCEPT ![r] =
         IF user = NoUser
           THEN Answered("delete", user, id, 401, "rejected")
           ELSE [kind |-> "delete", pc |-> "serve", user |-> user, id |-> id,
                 conversion |-> findUnique(id), status |-> 0]]
  /\ UNCHANGED <<layout, job, gate, codec, session, records, nextId, files, now>>

\* The continuation after findUnique, down to the await of prisma's delete.
deleteConversion_unlink(r) ==
  /\ req[r].kind = "delete" /\ req[r].pc = "serve"
  /\ LET q == req[r]
         c == q.conversion
     IN  IF c = Null
           THEN /\ req' = [req EXCEPT ![r] =
                     Answered("delete", q.user, q.id, 200, "missing")]
                /\ files' = files
           ELSE IF ~IsOwner(c, q.user)
             THEN /\ req' = [req EXCEPT ![r] =
                       Answered("delete", q.user, q.id, 403, "rejected")]
                  /\ files' = files
             ELSE /\ req' = [req EXCEPT ![r].pc = "delete"]
                  /\ files' = IF existsSync(c.pdfPath)
                                THEN unlinked(c.pdfPath) ELSE files
  /\ UNCHANGED <<layout, job, gate, codec, session, records, nextId, now>>

DeleteStatus(code) ==
  IF code = "ok" \/ IsRecordNotFound(code) THEN 200 ELSE 500

\* prisma.fileConversion.delete settles: done, or P2025 when the record has
\* gone in the meantime.
deleteConversion_settle(r) ==
  /\ req[r].kind = "delete" /\ req[r].pc = "delete"
  /\ LET code == IF findUnique(req[r].id) = Null THEN "P2025" ELSE "ok"
     IN  req' = [req EXCEPT ![r] =
           Answered("delete", @.user, @.id, DeleteStatus(code), code)]
  /\ records' = deleted(req[r].id)
  /\ UNCHANGED <<layout, job, gate, codec, session, nextId, files, now>>

\* ---------------------------------------------------------- getConversions
\* every record, whoever owns it
OwnedByAnyone(c, userId) == TRUE

\* where: { userId }
OwnedBy(c, userId) == c.userId = userId

\* orderBy: { createdAt: 'desc' }; rows of equal createdAt come in any order
Descending(a, b) == a.createdAt >= b.createdAt

\* the results prisma's findMany may give
findMany(userId) ==
  LET mine == {c \in records : OwnedBy(c, userId)}
      n == Cardinality(mine)
  IN  {rows \in [1..n -> mine] :
         /\ \A i, j \in 1..n : i # j => rows[i] # rows[j]
         /\ \A i, j \in 1..n : i < j => Descending(rows[i], rows[j])}

\* The whole handler: the query is one read of the table.
getConversions(r) ==
  /\ Free(r)
  /\ \E user \in Callers :
       IF user = NoUser
         THEN req' = [req EXCEPT ![r] =
                [kind |-> "list", pc |-> "done", user |-> user,
                 status |-> 401, conversions |-> <<>>]]
         ELSE \E rows \in findMany(user) :
                req' = [req EXCEPT ![r] =
                  [kind |-> "list", pc |-> "done", user |-> user,
                   status |-> 200, conversions |-> rows]]
  /\ UNCHANGED <<layout, job, gate, codec, session, records, nextId, files, now>>

\* ------------------------------------------------------- the /uploads mount
\* GET /uploads/pdfs/<name>: express.static is mounted before the routers and
\* behind no middleware; it sends the file when there is one and passes the
\* request on (404) when there is none. The id of the answer is the path.
express_static(r) ==
  /\ Free(r)
  /\ \E p \in Paths :
       req' = [req EXCEPT ![r] =
         IF existsSync(p)
           THEN Answered("static", NoUser, p, 200, "delivered")
           ELSE Answered("static", NoUser, p, 404, "rejected")]
  /\ UNCHANGED <<layout, job, gate, codec, session, records, nextId, files, now>>

\* ------------------------------------------------------------ convertToPDF
getSupportedMimeTypes == {"image/jpeg", "image/jpg", "image/png", "image/gif",
                          "image/webp", "image/heic", "image/heif"}

IsSupportedAny(mime) == TRUE

IsSupported(mime) == mime \in getSupportedMimeTypes

\* conversions that may still create a record
PendingCreates ==
  Cardinality({r \in Reqs : req[r].kind = "convert" /\ req[r].pc # "done"})

Convert(user, mime, format, upload, pc, status, error) ==
  [kind |-> "convert", pc |-> pc, user |-> user, mime |-> mime,
   format |-> format, hasFile |-> upload, upload |-> upload, path |-> 0,
   wrote |-> FALSE,
   docPending |-> FALSE, status |-> status, error |-> error]

\* the buffer behind each kind of upload
Sample(format) ==
  [format |-> IF format \in {"heic", "heic_bad"} THEN "heic" ELSE "jpeg",
   metadata |-> IF format = "corrupt"
                  THEN "Input buffer contains unsupported image format"
                  ELSE "ok",
   heicConvert |-> IF format = "heic_bad" THEN "HEIF image not found" ELSE "ok",
   resize |-> "ok", width |-> 800, height |-> 600, pdfkit |-> "end"]

\* an Error reaches convertToPDF's catch: answer 500 with its message
RetryInPlace(q, message) == [q EXCEPT !.pc = "normalize"]

Rejected(q, message) ==
  [q EXCEPT !.pc = "done", !.status = Failure(message).status,
            !.error = Failure(message).error]

\* The handler from its entry to the first await inside convertImageToPDF.
convertToPDF_start(r) ==
  /\ Free(r)
  /\ \E user \in Callers, hasFile \in BOOLEAN, mime \in Mimes,
        format \in Formats :
       IF user = NoUser
         THEN /\ ~hasFile /\ mime = "image/jpeg" /\ format = "jpeg"
              /\ req' = [req EXCEPT ![r] =
                   Convert(user, mime, format, FALSE, "done", 401,
                           <<"Unauthorized">>)]
       ELSE IF ~hasFile
         THEN /\ mime = "image/jpeg" /\ format = "jpeg"
              /\ req' = [req EXCEPT ![r] =
                   Convert(user, mime, format, FALSE, "done", 400,
                           <<"No file uploaded">>)]
       ELSE IF ~IsSupported(mime)
         THEN req' = [req EXCEPT ![r] =
                   Convert(user, mime, format, TRUE, "done",
                           Unsupported.status, Unsupported.error)]
       ELSE /\ nextId + PendingCreates <= MaxRecords
            /\ req' = [req EXCEPT ![r] =
                   Convert(user, mime, format, TRUE, "normalize", 0, <<>>)]
  /\ UNCHANGED <<layout, job, gate, codec, session, records, nextId, files, now>>

\* convertImageToPDF from sharp's metadata() to doc.end(): decode, name the
\* output after Date.now(), lay the page out, hand the image to pdfkit.
convertImageToPDF_normalize(r) ==
  /\ req[r].kind = "convert" /\ req[r].pc = "normalize"
  /\ LET d == convertDocumentToPDF_decode(Sample(req[r].format), req[r].mime)
     IN  req' = [req EXCEPT ![r] =
           IF d.ok
             THEN [@ EXCEPT !.pc = "encode", !.format = "jpeg", !.path = now,
                            !.docPending = TRUE]
             ELSE Rejected(@, d.message)]
  /\ UNCHANGED <<layout, job, gate, codec, session, records, nextId, files, now>>

\* pdfkit's 'end': the PDF is written; when the promise is still pending the
\* conversion returns, the upload is removed and prisma's create is issued.
docEnd(r, size) ==
  /\ req[r].kind = "convert" /\ req[r].docPending
  /\ files' = [files EXCEPT ![req[r].path] = size]
  /\ req' = [req EXCEPT ![r] =
       IF @.pc = "encode"
         THEN [@ EXCEPT !.pc = "create", !.wrote = TRUE,
                        !.docPending = FALSE, !.upload = FALSE]
         ELSE [@ EXCEPT !.wrote = TRUE, !.docPending = FALSE]]
  /\ UNCHANGED <<layout, job, gate, codec, session, records, nextId, now>>

doc_end(r) == docEnd(r, PdfSize)

\* The 10 second timer fires first: the promise is rejected.
doc_timeout(r) ==
  /\ req[r].kind = "convert" /\ req[r].pc = "encode"
  /\ req' = [req EXCEPT ![r] = Rejected(@, TimeoutMessage)]
  /\ UNCHANGED <<layout, job, gate, codec, session, records, nextId, files, now>>

\* pdfkit's 'error'.
doc_error(r) ==
  /\ req[r].kind = "convert" /\ req[r].pc = "encode"
  /\ req' = [req EXCEPT ![r] =
       [Rejected(@, PdfkitError(StreamMessage)) EXCEPT !.docPending = FALSE]]
  /\ UNCHANGED <<layout, job, gate, codec, session, records, nextId, files, now>>

\* prisma.fileConversion.create resolves and the success answer is sent.
prisma_create(r) ==
  /\ req[r].kind = "convert" /\ req[r].pc = "create"
  /\ records' = records \cup
       {[id |-> nextId, userId |-> req[r].user, pdfPath |-> req[r].path,
         createdAt |-> now]}
  /\ nextId' = nextId + 1
  /\ req' = [req EXCEPT ![r].pc = "done", ![r].status = Success.status]
  /\ UNCHANGED <<layout, job, gate, codec, session, files, now>>

\* ------------------------------------------------------------- environment
\* The client has its answer; the slot serves the next request. An upload
\* the handler left in UPLOAD_DIR stays there; nothing reads it again.
Release(r) ==
  /\ req[r].kind # "idle" /\ req[r].pc = "done"
  /\ req[r].kind = "convert" => ~req[r].docPending
  /\ req' = [req EXCEPT ![r] = Idle]
  /\ UNCHANGED <<layout, job, gate, codec, session, records, nextId, files, now>>

Tick ==
  /\ now < MaxClock
  /\ now' = now + 1
  /\ UNCHANGED <<layout, job, gate, codec, session, records, nextId, files, req>>

\* -------------------------------------------------- storage write failures
\* pdfkit's output is implausibly small (a few bytes), yet written.
doc_end_truncated(r) == docEnd(r, TruncatedPdfSize)

\* prisma's create rejects (database unavailable, constraint failure).
prisma_create_reject(r) ==
  /\ req[r].kind = "convert" /\ req[r].pc = "create"
  /\ req' = [req EXCEPT ![r] = Rejected(@, <<"database error">>)]
  /\ UNCHANGED <<layout, job, gate, codec, session, records, nextId, files, now>>

\* prisma's delete rejects with an error other than P2025.
deleteConversion_reject(r) ==
  /\ req[r].kind = "delete" /\ req[r].pc = "delete"
  /\ req' = [req EXCEPT ![r] =
       Answered("delete", @.user, @.id, DeleteStatus("P1001"), "P1001")]
  /\ UNCHANGED <<layout, job, gate, codec, session, records, nextId, files, now>>

\* the delete issued by getPDF's finish handler rejects; only logged.
purge_reject(r) ==
  /\ req[r].kind = "get" /\ req[r].pc = "purge"
  /\ req' = [req EXCEPT ![r] =
       Answered("get", @.user, @.id, @.status, "delivered")]
  /\ UNCHANGED <<layout, job, gate, codec, session, records, nextId, files, now>>

\* ------------------------------------------------- the two page layouts
\* pixel sizes of the images laid out
Widths == {1, 100, 595, 1000, 2480, 4000}
Heights == {1, 100, 842, 3000, 3508, 5000}

NoImage == [width |-> 0, height |-> 0, server |-> NoGeometry,
            client |-> NoGeometry]

\* The server lays out processedImage, the source after sharp's resize.
convertImageToPDF_layout ==
  /\ layout.width > 0 /\ ~layout.server.drawn
  /\ LET processed == sharpResize(layout.width, layout.height)
     IN  layout' = [layout EXCEPT !.server =
                      ServerGeometry(processed.width, processed.height)]
  /\ UNCHANGED <<job, gate, codec, session, records, nextId, files, now, req>>

\* The device lays out the embedded image at its own pixel size.
convertImageToPDFClient_layout ==
  /\ layout.width > 0 /\ ~layout.client.drawn
  /\ layout' = [layout EXCEPT !.client =
                   ClientGeometry(layout.width, layout.height)]
  /\ UNCHANGED <<job, gate, codec, session, records, nextId, files, now, req>>

\* ------------------------------------------------- one upload, step by step
Dims == {0, 800}

JobMimes == {"image/jpeg", "image/png", "image/heic", "image/tiff",
             "application/pdf"}

\* The uploads told apart by what the libraries make of them; a call that is
\* never reached has its outcome left at "ok".
Buffers ==
  {b \in [format : {"jpeg", "png", "heic", "heif"},
          metadata : {"ok"} \cup SharpMessages,
          heicConvert : {"ok"} \cup HeicMessages,
          resize : {"ok"} \cup SharpMessages,
          width : Dims, height : Dims,
          pdfkit : {"end", "timeout", "error", "image"}] :
     LET rest(w) == b.width = w /\ b.height = w /\ b.pdfkit = "end"
     IN  /\ b.metadata # "ok" =>
              b.format = "jpeg" /\ b.heicConvert = "ok" /\ b.resize = "ok"
              /\ rest(800)
         /\ b.format \in {"jpeg", "png"} => b.heicConvert = "ok"
         /\ b.heicConvert # "ok" => b.resize = "ok" /\ rest(800)
         /\ b.resize # "ok" => rest(800)}

\* what pdfkit's outcome makes convertToPDF answer, lines 150-192 and 85-98
Encoded(b) ==
  CASE b.pdfkit = "end" -> Success
    [] b.pdfkit = "timeout" -> Failure(TimeoutMessage)
    [] b.pdfkit = "error" -> Failure(PdfkitError(StreamMessage))
    [] b.pdfkit = "image" -> Failure(ImageError(ImageMessage))

\* convertToPDF's answer to an upload of buffer b declared as mimeType
convertToPDF_json(b, mimeType) ==
  IF ~IsSupported(mimeType) THEN Unsupported
  ELSE LET d == convertDocumentToPDF_decode(b, mimeType)
       IN  IF d.ok THEN Encoded(b) ELSE Failure(d.message)

NoJob == [stage |-> "none"]

NoAnswer == [status |-> 0, keys |-> {}, error |-> <<>>]

\* lines 40-48
job_validate ==
  /\ job.stage = "uploaded"
  /\ job' = IF IsSupported(job.mimetype)
              THEN [job EXCEPT !.stage = "validated"]
              ELSE [job EXCEPT !.stage = "answered", !.json = Unsupported]
  /\ UNCHANGED <<layout, gate, codec, session, records, nextId, files, now, req>>

\* convertDocumentToPDF down to line 104 of convertImageToPDF
job_decode ==
  /\ job.stage = "validated"
  /\ LET d == convertDocumentToPDF_decode(job.buffer, job.mimetype)
     IN  job' = [job EXCEPT
                   !.stage = IF d.ok THEN "normalized" ELSE "answered",
                   !.calls = d.calls,
                   !.imageWidth = d.imageWidth, !.imageHeight = d.imageHeight,
                   !.json = IF d.ok THEN @ ELSE Failure(d.message)]
  /\ UNCHANGED <<layout, gate, codec, session, records, nextId, files, now, req>>

\* the rest of the conversion, and the answer
job_encode ==
  /\ job.stage = "normalized"
  /\ job' = [job EXCEPT !.stage = "answered", !.json = Encoded(job.buffer)]
  /\ UNCHANGED <<layout, gate, codec, session, records, nextId, files, now, req>>

\* ------------------------------------------------- the device's base64 helpers
\* A base64 text is the sequence of its characters, each the index it has in
\* 'ABC...+/=': 0..63 for the digits, 64 for '='.
ByteValues == {0, 1, 77, 255}
PadChar == 64

ByteSeqs == UNION {[1..n -> ByteValues] : n \in 0..MaxBytes}

\* the while loop of uint8ArrayToBase64 from index i (counted from 0)
RECURSIVE uint8ArrayToBase64From(_, _)
uint8ArrayToBase64From(bytes, i) ==
  IF i >= Len(bytes) THEN <<>>
  ELSE LET a == bytes[i + 1]
           i1 == i + 1
           b == IF i1 < Len(bytes) THEN bytes[i1 + 1] ELSE 0
           i2 == IF i1 < Len(bytes) THEN i1 + 1 ELSE i1
           c == IF i2 < Len(bytes) THEN bytes[i2 + 1] ELSE 0
           i3 == IF i2 < Len(bytes) THEN i2 + 1 ELSE i2
           bitmap == a * 65536 + b * 256 + c
       IN  << (bitmap \div 262144) % 64,
              (bitmap \div 4096) % 64,
              IF i3 - 2 < Len(bytes) THEN (bitmap \div 64) % 64 ELSE PadChar,
              IF i3 - 1 < Len(bytes) THEN bitmap % 64 ELSE PadChar >>
           \o uint8ArrayToBase64From(bytes, i3)

uint8ArrayToBase64(bytes) == uint8ArrayToBase64From(bytes, 0)

\* base64ToUint8Array: '=' is stripped, the buffer has 0.75 bytes per digit
\* (new Uint8Array throws a RangeError when that is no integer), a digit
\* read past the end counts 0 and a byte written past the end is dropped.
base64ToUint8Array(base64) ==
  LET base64Data == SelectSeq(base64, LAMBDA ch : ch < PadChar)
      n == Len(base64Data)
      lookup(k) == IF k <= n THEN base64Data[k] ELSE 0
      byte(p) ==
        LET i == 4 * ((p - 1) \div 3)
            encoded1 == lookup(i + 1)
            encoded2 == lookup(i + 2)
            encoded3 == lookup(i + 3)
            encoded4 == lookup(i + 4)
        IN  CASE (p - 1) % 3 = 0 ->
                   (encoded1 * 4 + (encoded2 \div 16)) % 256
              [] (p - 1) % 3 = 1 ->
                   ((encoded2 % 16) * 16 + (encoded3 \div 4)) % 256
              [] (p - 1) % 3 = 2 ->
                   ((encoded3 % 4) * 64 + (encoded4 % 64)) % 256
  IN  IF (3 * n) % 4 # 0
        THEN [ok |-> FALSE, bytes |-> <<>>]
        ELSE [ok |-> TRUE, bytes |-> [p \in 1..((3 * n) \div 4) |-> byte(p)]]

\* pdfBase64 = uint8ArrayToBase64(pdfBytes)
codec_encode ==
  /\ codec.stage = "bytes"
  /\ codec' = [codec EXCEPT !.stage = "encoded",
                            !.base64 = uint8ArrayToBase64(codec.bytes)]
  /\ UNCHANGED <<layout, job, gate, session, records, nextId, files, now, req>>

\* the text is read back with base64ToUint8Array
codec_decode ==
  /\ codec.stage = "encoded"
  /\ codec' = [codec EXCEPT !.stage = "decoded",
                            !.decoded = base64ToUint8Array(codec.base64)]
  /\ UNCHANGED <<layout, job, gate, session, records, nextId, files, now, req>>

\* ------------------------------------------------------- the mobile session
\* session.token, session.user   AuthProvider's useState values
\* session.loading               AuthProvider's loading
\* session.storedToken/User      AsyncStorage 'token' and 'user'
\* session.op                    where the one AuthContext call in progress is
\* session.intercept             where the 401 interceptor is
\* session.account               the account of the call or of the token read
Nothing == "null"
Accounts == {"a1", "a2"}

TokenOf(account) == IF account = "a1" THEN "t1" ELSE "t2"
UserOf(account) == IF account = "a1" THEN "user1" ELSE "user2"

\* value.isAuthenticated, line 93
isAuthenticated == session.token # Nothing /\ session.user # Nothing

SessionRest == <<layout, job, gate, codec, records, nextId, files, now, req>>

\* restoreSession: getToken() resolves
restoreSession_getToken ==
  /\ session.op = "restore_getToken"
  /\ session' = [session EXCEPT !.op = "restore_getUser",
                                !.read = session.storedToken]
  /\ UNCHANGED SessionRest

\* restoreSession: getUser() resolves; lines 36-43
restoreSession_getUser ==
  /\ session.op = "restore_getUser"
  /\ session' =
       IF session.read # Nothing /\ session.storedUser # Nothing
         THEN [session EXCEPT !.op = "idle", !.loading = FALSE,
                              !.read = Nothing,
                              !.token = session.read,
                              !.user = session.storedUser]
         ELSE [session EXCEPT !.op = "idle", !.loading = FALSE,
                              !.read = Nothing]
  /\ UNCHANGED SessionRest

\* login(data) is called: authAPI.login is awaited
login ==
  /\ session.op = "idle" /\ ~session.loading
  /\ \E account \in Accounts :
       session' = [session EXCEPT !.op = "request", !.account = account]
  /\ UNCHANGED SessionRest

\* register(data) is called: authAPI.register is awaited
register ==
  /\ session.op = "idle" /\ ~session.loading
  /\ \E account \in Accounts :
       session' = [session EXCEPT !.op = "request", !.account = account]
  /\ UNCHANGED SessionRest

\* the response arrives: setToken, setUser, then saveToken is awaited
auth_response ==
  /\ session.op = "request"
  /\ session' = [session EXCEPT !.op = "saveToken",
                                !.token = TokenOf(session.account),
                                !.user = UserOf(session.account)]
  /\ UNCHANGED SessionRest

\* the call is rejected (wrong password, no network): login rethrows
auth_rejected ==
  /\ session.op = "request"
  /\ session' = [session EXCEPT !.op = "idle", !.account = Nothing]
  /\ UNCHANGED SessionRest

auth_saveToken ==
  /\ session.op = "saveToken"
  /\ session' = [session EXCEPT !.op = "saveUser",
                                !.storedToken = TokenOf(session.account)]
  /\ UNCHANGED SessionRest

auth_saveUser ==
  /\ session.op = "saveUser"
  /\ session' = [session EXCEPT !.op = "idle", !.account = Nothing,
                                !.storedUser = UserOf(session.account)]
  /\ UNCHANGED SessionRest

\* logout(): setToken(null), setUser(null), then clearAuth is awaited
logout ==
  /\ session.op = "idle" /\ ~session.loading
  /\ session' = [session EXCEPT !.op = "removeToken", !.token = Nothing,
                                !.user = Nothing]
  /\ UNCHANGED SessionRest

clearAuth_removeToken ==
  /\ session.op = "removeToken"
  /\ session' = [session EXCEPT !.op = "removeUser", !.storedToken = Nothing]
  /\ UNCHANGED SessionRest

clearAuth_removeUser ==
  /\ session.op = "removeUser"
  /\ session' = [session EXCEPT !.op = "idle", !.storedUser = Nothing]
  /\ UNCHANGED SessionRest

\* a response with status 401 reaches the interceptor: removeItem('token')
\* is awaited
interceptor_401 ==
  /\ session.intercept = "idle"
  /\ session' = [session EXCEPT !.intercept = "removeToken"]
  /\ UNCHANGED SessionRest

interceptor_removeToken ==
  /\ session.intercept = "removeToken"
  /\ session' = [session EXCEPT !.intercept = "removeUser",
                                !.storedToken = Nothing]
  /\ UNCHANGED SessionRest

interceptor_removeUser ==
  /\ session.intercept = "removeUser"
  /\ session' = [session EXCEPT !.intercept = "idle",
                                !.storedUser = Nothing]
  /\ UNCHANGED SessionRest

\* the app is started again: AuthProvider mounts with its initial state
AuthProvider_mount ==
  /\ session.op = "idle" /\ session.intercept = "idle" /\ ~session.loading
  /\ session' = [session EXCEPT !.op = "restore_getToken", !.loading = TRUE,
                                !.token = Nothing, !.user = Nothing]
  /\ UNCHANGED SessionRest

\* ------------------------------------------------------ the PDF router
\* gate.authorization   req.headers.authorization, split at the spaces;
\*                      <<>> when the header is absent or empty
\* gate.query           req.query.token: absent, a string, or an array
\* gate.route           the route the request is for
\* gate.ran             the middleware and handlers that ran, in order
\* gate.user            req.user
Tokens == {"u1.ok", "u2.ok", "u1.expired", "u1.forged", "garbage", ""}
NoHeader == <<>>
Headers ==
  {NoHeader}
    \cup {<<"Bearer", t>> : t \in Tokens}
    \cup {<<"Basic", "u1.ok">>, <<"bearer", "u1.ok">>, <<"u1.ok">>,
          <<"Bearer", "", "u1.ok">>}
Queries ==
  {[kind |-> "absent", value |-> ""]}
    \cup {[kind |-> "string", value |-> t] : t \in Tokens}
    \cup {[kind |-> "array", value |-> "u1.ok"]}
Routes == {"convert", "conversions", "getPDF", "delete"}

Handler(route) ==
  CASE route = "convert" -> "convertToPDF"
    [] route = "conversions" -> "getConversions"
    [] route = "getPDF" -> "getPDF"
    [] OTHER -> "deleteConversion"

\* jwt.decode: the payload of a well-formed token, whatever its signature
\* and expiry
verifyTokenUnsigned(token) ==
  CASE token \in {"u1.ok", "u1.expired", "u1.forged"} -> "u1"
    [] token = "u2.ok" -> "u2"
    [] OTHER -> NoUser

\* jwt.verify: the payload of a token signed with JWT_SECRET and not
\* expired, null (NoUser) for any other
verifyToken(token) ==
  CASE token = "u1.ok" -> "u1"
    [] token = "u2.ok" -> "u2"
    [] OTHER -> NoUser

\* !token
Falsy(token) == token = Nothing \/ token = ""

extractTokenFromHeader(authHeader) ==
  IF authHeader = NoHeader THEN Nothing
  ELSE IF Len(authHeader) # 2 \/ authHeader[1] # "Bearer" THEN Nothing
  ELSE authHeader[2]

GateRest == <<layout, job, codec, session, records, nextId, files, now, req>>

authenticateToken ==
  /\ gate.stage = "received"
  /\ LET header == extractTokenFromHeader(gate.authorization)
         token == IF /\ Falsy(header)
                     /\ gate.query.kind # "absent" /\ gate.query.value # ""
                     /\ gate.query.kind = "string"
                    THEN gate.query.value ELSE header
         payload == verifyToken(token)
     IN  gate' =
           IF Falsy(token)
             THEN [gate EXCEPT !.stage = "answered", !.status = 401,
                     !.error = "Authentication required. No token provided.",
                     !.ran = <<"authenticateToken">>]
           ELSE IF payload = NoUser
             THEN [gate EXCEPT !.stage = "answered", !.status = 401,
                     !.error = "Invalid or expired token.",
                     !.ran = <<"authenticateToken">>]
           ELSE [gate EXCEPT !.stage = "next", !.user = payload,
                   !.ran = <<"authenticateToken">>]
  /\ UNCHANGED GateRest

\* multer on POST /convert: stores the upload, or refuses it
uploadPDFFile ==
  /\ gate.stage = "next" /\ gate.route = "convert"
  /\ gate.ran = <<"authenticateToken">>
  /\ \E stored \in BOOLEAN :
       gate' = IF stored
                 THEN [gate EXCEPT !.ran = Append(gate.ran, "uploadPDFFile")]
                 ELSE [gate EXCEPT !.ran = Append(gate.ran, "uploadPDFFile"),
                         !.stage = "answered", !.status = 400,
                         !.error = "upload refused"]
  /\ UNCHANGED GateRest

\* the route's handler is called
router_handle ==
  /\ gate.stage = "next"
  /\ gate.route = "convert" => Len(gate.ran) = 2
  /\ gate' = [gate EXCEPT !.stage = "handled",
                          !.ran = Append(gate.ran, Handler(gate.route))]
  /\ UNCHANGED GateRest

\* placeholders of the parts a specification leaves out
NoGate == [stage |-> "none"]
NoCodec == [stage |-> "none"]
NoSession == [stage |-> "none"]

\* ----------------------------------------------------------- specification
Init ==
  /\ layout = NoImage
  /\ gate = NoGate /\ codec = NoCodec /\ session = NoSession
  /\ job = NoJob
  /\ records = {}
  /\ nextId = 1
  /\ files = [p \in Paths |-> 0]
  /\ now = 0
  /\ req = [r \in Reqs |-> Idle]

Next ==
  \/ \E r \in Reqs : convertToPDF_start(r)
  \/ \E r \in Reqs : convertImageToPDF_normalize(r)
  \/ \E r \in Reqs : doc_end(r)
  \/ \E r \in Reqs : doc_timeout(r)
  \/ \E r \in Reqs : doc_error(r)
  \/ \E r \in Reqs : prisma_create(r)
  \/ \E r \in Reqs : getPDF_findUnique(r)
  \/ \E r \in Reqs : getPDF_serve(r)
  \/ \E r \in Reqs : fileStream_open(r)
  \/ \E r \in Reqs : fileStream_data(r)
  \/ \E r \in Reqs : fileStream_end(r)
  \/ \E r \in Reqs : fileStream_error(r)
  \/ \E r \in Reqs : res_finish(r)
  \/ \E r \in Reqs : res_close(r)
  \/ \E r \in Reqs : purge_settle(r)
  \/ \E r \in Reqs : deleteConversion_findUnique(r)
  \/ \E r \in Reqs : deleteConversion_unlink(r)
  \/ \E r \in Reqs : deleteConversion_settle(r)
  \/ \E r \in Reqs : getConversions(r)
  \/ \E r \in Reqs : express_static(r)
  \/ \E r \in Reqs : Release(r)
  \/ Tick

Spec == Init /\ [][Next]_vars

\* The event loop runs the continuation of a promise that settles.
LiveSpec == Spec /\ \A r \in Reqs : WF_vars(purge_settle(r))

\* The open of the read stream settles: the file is opened, or 'error' is
\* emitted for it.
fileStream_opened(r) ==
  \/ fileStream_open(r)
  \/ /\ req[r].kind = "get" /\ req[r].pc = "stream" /\ ~req[r].opened
     /\ fileStream_error(r)

\* Everything getPDF waits for that the server itself brings about happens:
\* prisma settles, the file opens or fails to, an open stream is read to its
\* end when nothing fails, and an ended response finishes. A read error and
\* the client going away are not owed.
ServeSpec ==
  /\ Spec
  /\ \A r \in Reqs :
       /\ WF_vars(getPDF_serve(r))
       /\ WF_vars(fileStream_opened(r))
       /\ WF_vars(fileStream_data(r))
       /\ WF_vars(fileStream_end(r))
       /\ WF_vars(res_finish(r))
       /\ WF_vars(purge_settle(r))

FaultNext ==
  \/ Next
  \/ \E r \in Reqs : doc_end_truncated(r)
  \/ \E r \in Reqs : prisma_create_reject(r)
  \/ \E r \in Reqs : deleteConversion_reject(r)
  \/ \E r \in Reqs : purge_reject(r)

FaultSpec == Init /\ [][FaultNext]_vars

\* One image of any of the sizes, given to both converters.
GeomInit ==
  /\ job = NoJob
  /\ gate = NoGate /\ codec = NoCodec /\ session = NoSession
  /\ records = {}
  /\ nextId = 1
  /\ files = [p \in Paths |-> 0]
  /\ now = 0
  /\ req = [r \in Reqs |-> Idle]
  /\ \E w \in Widths, h \in Heights :
       layout = [NoImage EXCEPT !.width = w, !.height = h]

GeomNext ==
  \/ convertImageToPDF_layout
  \/ convertImageToPDFClient_layout

GeomSpec == GeomInit /\ [][GeomNext]_vars

\* One upload of any buffer under any declared type.
JobInit ==
  /\ layout = NoImage
  /\ gate = NoGate /\ codec = NoCodec /\ session = NoSession
  /\ records = {}
  /\ nextId = 1
  /\ files = [p \in Paths |-> 0]
  /\ now = 0
  /\ req = [r \in Reqs |-> Idle]
  /\ \E b \in Buffers, mimeType \in JobMimes :
       job = [stage |-> "uploaded", buffer |-> b, mimetype |-> mimeType,
              calls |-> <<>>, imageWidth |-> 0, imageHeight |-> 0,
              json |-> NoAnswer]

JobNext ==
  \/ job_validate
  \/ job_decode
  \/ job_encode

JobSpec == JobInit /\ [][JobNext]_vars

\* the server at rest, nothing laid out, no upload
Quiet ==
  /\ layout = NoImage /\ job = NoJob
  /\ records = {}
  /\ nextId = 1
  /\ files = [p \in Paths |-> 0]
  /\ now = 0
  /\ req = [r \in Reqs |-> Idle]

\* One byte sequence of any length up to MaxBytes.
CodecInit ==
  /\ Quiet /\ gate = NoGate /\ session = NoSession
  /\ \E bytes \in ByteSeqs :
       codec = [stage |-> "bytes", bytes |-> bytes, base64 |-> <<>>,
                decoded |-> [ok |-> TRUE, bytes |-> <<>>]]

CodecNext ==
  \/ codec_encode
  \/ codec_decode

CodecSpec == CodecInit /\ [][CodecNext]_vars

\* One request with any Authorization header and any token parameter.
GateInit ==
  /\ Quiet /\ codec = NoCodec /\ session = NoSession
  /\ \E authorization \in Headers, query \in Queries, route \in Routes :
       gate = [stage |-> "received", authorization |-> authorization,
               query |-> query, route |-> route, ran |-> <<>>,
               user |-> NoUser, status |-> 0, error |-> ""]

GateNext ==
  \/ authenticateToken
  \/ uploadPDFFile
  \/ router_handle

GateSpec == GateInit /\ [][GateNext]_vars

\* The app starts with whatever an earlier run left in AsyncStorage.
SessionInit ==
  /\ Quiet /\ gate = NoGate /\ codec = NoCodec
  /\ \E stored \in Accounts \cup {Nothing} :
       session = [token |-> Nothing, user |-> Nothing, loading |-> TRUE,
                  storedToken |-> IF stored = Nothing THEN Nothing
                                  ELSE TokenOf(stored),
                  storedUser |-> IF stored = Nothing THEN Nothing
                                 ELSE UserOf(stored),
                  op |-> "restore_getToken", intercept |-> "idle",
                  account |-> Nothing, read |-> Nothing]

SessionNext ==
  \/ restoreSession_getToken
  \/ restoreSession_getUser
  \/ login
  \/ register
  \/ auth_response
  \/ auth_rejected
  \/ auth_saveToken
  \/ auth_saveUser
  \/ logout
  \/ clearAuth_removeToken
  \/ clearAuth_removeUser
  \/ interceptor_401
  \/ interceptor_removeToken
  \/ interceptor_removeUser
  \/ AuthProvider_mount

SessionSpec == SessionInit /\ [][SessionNext]_vars

\* ================================================================== claims
Geometries == {layout.server, layout.client}

\* min(pageWidth/width, pageHeight/height, 1) for the image g lays out
CappedScale(g) ==
  RatMin(RatMin(Rat(595, g.imageWidth), Rat(842, g.imageHeight)), Whole(1))

\* C5: in both converters the scale is min(595/width, 842/height, 1): it
\* never exceeds 1 and the image is drawn no larger than its pixel size.
C5_ScaleIsCappedMin ==
  \A g \in Geometries : g.drawn =>
    /\ g.scale = CappedScale(g)
    /\ RatLeq(g.scale, Whole(1))
    /\ RatLeq(g.scaledWidth, Whole(g.imageWidth))
    /\ RatLeq(g.scaledHeight, Whole(g.imageHeight))

\* C6: in both converters the drawn image is centred on the 595 x 842 page:
\* x + scaledWidth/2 = 595/2 and y + scaledHeight/2 = 842/2, exactly.
C6_Centred ==
  \A g \in Geometries : g.drawn =>
    /\ RatAdd(g.x, RatDiv(g.scaledWidth, Whole(2))) = Rat(595, 2)
    /\ RatAdd(g.y, RatDiv(g.scaledHeight, Whole(2))) = Rat(842, 2)

\* a 4000 x 3000 image laid out by both: off the page's origin on one axis
C6_Witness ==
  /\ layout.width = 4000 /\ layout.height = 3000
  /\ layout.server.drawn /\ layout.client.drawn
  /\ layout.server.y # Whole(0) /\ layout.client.y # Whole(0)

\* C7: given the same image, the server and the device compute the same
\* page size and the same draw rectangle.
C7_SameGeometry ==
  (layout.server.drawn /\ layout.client.drawn) =>
    /\ layout.server.pageWidth = layout.client.pageWidth
    /\ layout.server.pageHeight = layout.client.pageHeight
    /\ layout.server.x = layout.client.x
    /\ layout.server.y = layout.client.y
    /\ layout.server.scaledWidth = layout.client.scaledWidth
    /\ layout.server.scaledHeight = layout.client.scaledHeight

\* C8: in both converters the draw rectangle lies inside the 595 x 842 page
\* and both axes carry the same scale: drawnWidth * height =
\* drawnHeight * width.
C8_InsidePageUniform ==
  \A g \in Geometries : g.drawn =>
    /\ g.pageWidth = 595 /\ g.pageHeight = 842
    /\ RatLeq(Whole(0), g.x) /\ RatLeq(Whole(0), g.y)
    /\ RatLeq(RatAdd(g.x, g.scaledWidth), Whole(595))
    /\ RatLeq(RatAdd(g.y, g.scaledHeight), Whole(842))
    /\ RatMul(g.scaledWidth, Whole(g.imageHeight)) =
         RatMul(g.scaledHeight, Whole(g.imageWidth))

\* a tall narrow image laid out by both: it touches the page's top and bottom
C8_Witness ==
  /\ layout.width = 100 /\ layout.height = 5000
  /\ layout.server.drawn /\ layout.client.drawn
  /\ layout.server.scaledHeight = Whole(842)
  /\ layout.client.scaledHeight = Whole(842)

\* ------------------------------------------------------ retrieval, delete
\* request r takes a step
Steps(r) == req'[r] # req[r]

\* r is a retrieval that is failing or fails in this step: its read stream
\* has failed, or the step ends it with anything but a full delivery.
FailedRetrievalStep(r) ==
  /\ req[r].kind = "get" /\ req[r].pc \in {"serve", "stream"}
  /\ Steps(r)
  /\ \/ req[r].pc = "stream" /\ req[r].hasStreamError
     \/ req[r].pc = "stream" /\ req[r].status # 200
     \/ req'[r].pc = "done" /\ req'[r].result # "delivered"

\* C1: a retrieval whose read stream fails, whose client goes away before the
\* response finishes, or whose status is not 200 deletes neither the stored
\* PDF nor the record.
C1_FailedRetrievalKeepsAll ==
  [][\A r \in Reqs :
       FailedRetrievalStep(r) => (files' = files /\ records' = records)]_vars

\* a retrieval by the owner ended with a stream failure or a disconnect, the
\* record and its PDF are still there, and a second retrieval of the record
\* by the owner has streamed the whole file
C1_Witness ==
  /\ req[1].kind = "get" /\ req[1].pc = "done"
  /\ req[1].result \in {"streamError", "closed"}
  /\ req[2].kind = "get" /\ req[2].pc = "stream"
  /\ req[2].id = req[1].id /\ req[2].user = req[1].user
  /\ WholeFileSent(req[2])
  /\ findUnique(req[1].id) # Null
  /\ findUnique(req[1].id).userId = req[1].user
  /\ existsSync(findUnique(req[1].id).pdfPath)

\* res 'finish' fires for retrieval r in this step
FinishStep(r) ==
  /\ req[r].kind = "get" /\ req[r].pc = "stream" /\ req[r].resEnded
  /\ Steps(r)
  /\ \/ req'[r].pc = "purge"
     \/ req'[r].pc = "done" /\ req'[r].result # "closed"

\* the whole file of record id went out and the response finished with 200
Delivered(r, id) ==
  /\ req[r].kind = "get" /\ req[r].id = id
  /\ \/ req[r].pc = "purge" /\ WholeFileSent(req[r])
     \/ req[r].pc = "done" /\ req[r].result = "delivered"

\* C2: the 'end' flag is set whenever 'finish' can fire with status 200; the
\* finish of a full delivery leaves no stored PDF at the record's path; and
\* after it the record eventually does not exist.
C2_DeliveredIsPurged ==
  /\ [](\A r \in Reqs :
          (req[r].kind = "get" /\ req[r].pc = "stream" /\ req[r].resEnded
             /\ req[r].status = 200) => req[r].streamEnded)
  /\ [][\A r \in Reqs : (FinishStep(r) /\ WholeFileSent(req[r]))
          => files'[req[r].conversion.pdfPath] = 0]_vars
  /\ \A r \in Reqs, id \in Ids : Delivered(r, id) ~> (findUnique(id) = Null)

\* a full delivery is over; the record is gone and no PDF is stored
C2_Witness ==
  \E r \in Reqs :
    /\ req[r].kind = "get" /\ req[r].pc = "done"
    /\ req[r].result = "delivered" /\ req[r].status = 200
    /\ findUnique(req[r].id) = Null
    /\ \A p \in Paths : ~existsSync(p)

\* r is about to run the handler's continuation for a record that exists and
\* belongs to somebody else
NonOwner(r) ==
  /\ req[r].kind \in {"get", "delete"} /\ req[r].pc = "serve"
  /\ req[r].conversion # Null
  /\ req[r].conversion.userId # req[r].user

\* C3: getPDF and deleteConversion answer a caller who is not the owner of an
\* existing record with 403, send no PDF content, and leave the record and
\* the stored file as they are.
C3_NonOwnerForbidden ==
  [][\A r \in Reqs : (NonOwner(r) /\ Steps(r)) =>
       /\ req'[r] = Answered(req[r].kind, req[r].user, req[r].id, 403,
                             "rejected")
       /\ files' = files /\ records' = records]_vars

\* a retrieval and a delete of the same existing record were both refused
C3_Witness ==
  /\ req[1].kind = "get" /\ req[1].pc = "done" /\ req[1].status = 403
  /\ req[2].kind = "delete" /\ req[2].pc = "done" /\ req[2].status = 403
  /\ req[1].id = req[2].id
  /\ findUnique(req[1].id) # Null
  /\ existsSync(findUnique(req[1].id).pdfPath)

\* C4: a delete by the owner is answered with success, also when the record
\* or its file is already gone (after a download, or by a concurrent delete);
\* after a delete that found the record the record does not exist, and a
\* delete that finds no record changes nothing.
C4_DeleteIdempotent ==
  /\ [](\A r \in Reqs :
          (req[r].kind = "delete" /\ req[r].pc = "done"
             /\ req[r].user # NoUser /\ req[r].status # 403)
          => /\ req[r].status = 200
             /\ req[r].result \in {"ok", "P2025"}
                  => findUnique(req[r].id) = Null)
  /\ [][\A r \in Reqs :
          (req[r].kind = "delete" /\ req[r].pc = "serve"
             /\ req[r].conversion = Null /\ Steps(r))
          => /\ req'[r].pc = "done" /\ req'[r].status = 200
             /\ files' = files /\ records' = records]_vars

\* the owner deleted a record, then deleted it again: success both times
C4_Witness ==
  /\ req[1].kind = "delete" /\ req[1].pc = "done"
  /\ req[1].status = 200 /\ req[1].result = "ok"
  /\ req[2].kind = "delete" /\ req[2].pc = "done"
  /\ req[2].status = 200 /\ req[2].result \in {"missing", "P2025"}
  /\ req[2].id = req[1].id /\ req[2].user = req[1].user

\* ---------------------------------------------------------------- convert
\* C9: once convertToPDF has answered a request that carried a file, the
\* uploaded file is gone from disk, whatever the outcome.
C9_UploadRemoved ==
  \A r \in Reqs :
    (req[r].kind = "convert" /\ req[r].pc = "done" /\ req[r].hasFile)
    => ~req[r].upload

\* C10: once convertToPDF has answered with an error, no PDF written for the
\* request is on disk.
C10_NoResidueOnError ==
  \A r \in Reqs :
    (req[r].kind = "convert" /\ req[r].pc = "done" /\ req[r].status >= 400)
    => ~(req[r].wrote /\ existsSync(req[r].path))

\* r carries a file whose declared type is not in getSupportedMimeTypes()
UnsupportedUpload(r) ==
  /\ req[r].kind = "convert" /\ req[r].user # NoUser /\ req[r].hasFile
  /\ req[r].mime \notin getSupportedMimeTypes

\* C11: a request whose declared MIME type is not supported is answered 400
\* 'Unsupported file type' by the block that receives it: the conversion is
\* never started for it, it writes no PDF, and no file or record changes.
C11_UnsupportedRejectedEarly ==
  /\ [](\A r \in Reqs : UnsupportedUpload(r) =>
          /\ req[r].pc = "done" /\ req[r].status = 400
          /\ req[r].error = <<"Unsupported file type">>
          /\ ~req[r].wrote /\ ~req[r].docPending)
  /\ [][\A r \in Reqs : (UnsupportedUpload(r)' /\ Steps(r)) =>
          (files' = files /\ records' = records)]_vars

\* an upload declared application/pdf was refused
C11_Witness ==
  \E r \in Reqs :
    /\ UnsupportedUpload(r) /\ req[r].mime = "application/pdf"
    /\ req[r].pc = "done" /\ req[r].status = 400

\* the request of slot r was answered with the timeout error
TimedOut(r) ==
  /\ req[r].kind = "convert" /\ req[r].pc = "done"
  /\ req[r].error = TimeoutMessage

\* the 10 second timer fires for r in this step: r leaves the wait for pdfkit
\* while pdfkit has signalled neither 'end' nor 'error'
TimerStep(r) ==
  /\ req[r].kind = "convert" /\ req[r].pc = "encode" /\ Steps(r)
  /\ req'[r].docPending

\* C16: when the timer fires first the request is answered 500 with the
\* timeout error, no record is created then or later for it, and the
\* conversion is not started again.
C16_TimeoutIsFailure ==
  /\ [][\A r \in Reqs : TimerStep(r) =>
          /\ TimedOut(r)' /\ req'[r].status = 500
          /\ records' = records]_vars
  /\ [][\A r \in Reqs : (TimedOut(r) /\ Steps(r)) =>
          /\ records' = records
          /\ req'[r] = Idle \/ TimedOut(r)']_vars

\* a request timed out, pdfkit finished afterwards, and there is no record
C16_Witness ==
  \E r \in Reqs :
    /\ TimedOut(r) /\ req[r].status = 500
    /\ req[r].wrote /\ ~req[r].docPending
    /\ records = {}

\* C17: a conversion whose written PDF is smaller than the minimum plausible
\* size ends as a failure: it leaves the wait for pdfkit with an error answer
\* and never goes on to create a record.
C17_SmallPdfIsFailure ==
  [][\A r \in Reqs :
       (req[r].kind = "convert" /\ req[r].pc = "encode" /\ Steps(r)
          /\ req'[r].wrote /\ TooSmall(files'[req[r].path]))
       => (req'[r].pc = "done" /\ req'[r].status >= 400)]_vars

\* C20: a record is created only when the file its pdfPath names exists, and
\* a conversion is answered with success only in the step that creates its
\* record.
C20_RecordAfterFile ==
  /\ [][\A c \in records' \ records : files'[c.pdfPath] > 0]_vars
  /\ [][\A r \in Reqs :
          (req[r].kind = "convert" /\ req[r].status # 200
             /\ req'[r].kind = "convert" /\ req'[r].status = 200)
          => \E c \in records' \ records :
               c.userId = req[r].user /\ c.pdfPath = req[r].path]_vars

\* ------------------------------------------------------- decode and answers
\* the upload's buffer is one sharp's metadata() reports as HEIC or HEIF
HeicUpload ==
  /\ job.buffer.metadata = "ok"
  /\ job.buffer.format \in {"heic", "heif"}

\* the decode of the upload has run
Decoded == job.calls # <<>>

\* C12: for an input detected as 'heic' or 'heif', heicConvert is called on
\* the original buffer before anything is resized, and the only buffer the
\* sharp resize/encode pipeline is given is the JPEG heicConvert returned.
C12_HeicRouted ==
  (HeicUpload /\ Decoded) =>
    /\ \E j \in DOMAIN job.calls :
         job.calls[j] = [fn |-> "heicConvert", buffer |-> "imageBuffer"]
    /\ \A i \in DOMAIN job.calls : job.calls[i].fn = "resize" =>
         /\ job.calls[i].buffer = "jpegBuffer"
         /\ \E j \in 1..(i - 1) : job.calls[j].fn = "heicConvert"

\* a HEIC upload was converted: heicConvert ran, then the JPEG was resized
C12_Witness ==
  /\ HeicUpload /\ job.stage = "answered" /\ job.json = Success
  /\ Len(job.calls) = 3
  /\ job.calls[2].fn = "heicConvert"
  /\ job.calls[3] = [fn |-> "resize", buffer |-> "jpegBuffer"]

\* C13: the calls made on the bytes and the answer are the same under every
\* supported declared type: what this upload got is what the same buffer
\* gets when declared as any other supported type.
C13_PathByContentOnly ==
  IsSupported(job.mimetype) =>
    \A mimeType \in getSupportedMimeTypes :
      /\ Decoded =>
           convertDocumentToPDF_decode(job.buffer, mimeType).calls = job.calls
      /\ job.stage = "answered" =>
           convertToPDF_json(job.buffer, mimeType) = job.json

\* a HEIC buffer declared image/jpeg went through heicConvert and succeeded
C13_Witness ==
  /\ HeicUpload /\ job.mimetype = "image/jpeg"
  /\ job.stage = "answered" /\ job.json = Success
  /\ \E j \in DOMAIN job.calls : job.calls[j].fn = "heicConvert"

\* the pieces of text of a message
Pieces(message) == {message[i] : i \in DOMAIN message}

\* buffers whose decode fails outside the HEIC step
CorruptBuffers ==
  {b \in Buffers : ~convertImageToPDF_decode(b).ok
                   /\ convertImageToPDF_decode(b).stage = "decode"}

\* C14: when heicConvert fails, the error text answered tells the caller to
\* convert the image to JPEG, and it is not the text of any generic decode
\* failure.
C14_HeicFailureAdvises ==
  (HeicUpload /\ job.buffer.heicConvert # "ok" /\ job.stage = "answered"
     /\ IsSupported(job.mimetype)) =>
    /\ job.json.status >= 400
    /\ HeicAdvice \in Pieces(job.json.error)
    /\ \A b \in CorruptBuffers :
         convertToPDF_json(b, job.mimetype).error # job.json.error

\* the class of the spec's taxonomy a failing upload falls in, by the stage
\* that failed
FailureClass(b, mimeType) ==
  LET d == convertDocumentToPDF_decode(b, mimeType)
  IN  IF ~IsSupported(mimeType) \/ d.stage = "mime" THEN "UnsupportedInputType"
      ELSE IF d.stage = "heic" THEN "HeicTranscodeFailed"
      ELSE IF d.stage = "decode" THEN "CorruptInput"
      ELSE IF b.pdfkit # "end" THEN "EncodingFailed"
      ELSE "none"

\* what a program can check in an answer without reading its text
Kind(json) == <<json.status, json.keys>>

\* C15: the answer to a failed conversion carries a kind, and answers to
\* failures of different classes carry different kinds.
C15_ErrorsClassified ==
  (job.stage = "answered"
     /\ FailureClass(job.buffer, job.mimetype) # "none") =>
    \A b \in Buffers, mimeType \in JobMimes :
      FailureClass(b, mimeType) \notin
          {"none", FailureClass(job.buffer, job.mimetype)}
        => Kind(convertToPDF_json(b, mimeType)) # Kind(job.json)

\* C18: a decode that yields an image of zero or missing width or height
\* makes the conversion fail: it is not handed on to pdfkit and it is not
\* answered with success.
C18_ZeroDimensionFails ==
  (Decoded /\ convertDocumentToPDF_decode(job.buffer, job.mimetype).stage = "none"
     /\ (job.buffer.width = 0 \/ job.buffer.height = 0)) =>
    /\ job.stage # "normalized"
    /\ job.json.status # 200

\* -------------------------------------------------------------------- list
\* C19: getConversions answers with exactly the caller's records, each once,
\* none of another user, the most recently created first, and changes no
\* record and no file.
C19_ListIsOwnOrdered ==
  [][\A r \in Reqs :
       (req[r].kind = "idle" /\ req'[r].kind = "list"
          /\ req'[r].user # NoUser) =>
       LET rows == req'[r].conversions
       IN  /\ req'[r].status = 200
           /\ {rows[i] : i \in DOMAIN rows} =
                {c \in records : c.userId = req'[r].user}
           /\ Len(rows) = Cardinality({c \in records : c.userId = req'[r].user})
           /\ \A i, j \in DOMAIN rows :
                i < j => rows[i].createdAt >= rows[j].createdAt
           /\ records' = records /\ files' = files]_vars

\* one user was listed two records, the later one first, while the other
\* user was listed none
C19_Witness ==
  /\ req[1].kind = "list" /\ req[1].status = 200
  /\ Len(req[1].conversions) = 2
  /\ req[1].conversions[1].createdAt > req[1].conversions[2].createdAt
  /\ req[2].kind = "list" /\ req[2].status = 200
  /\ req[2].user # req[1].user /\ req[2].conversions = <<>>
  /\ Cardinality(records) = 2

\* ------------------------------------------------------- paths and purges
\* C21: no two records name the same stored file.
C21_DistinctPaths ==
  \A c1, c2 \in records : c1.id # c2.id => c1.pdfPath # c2.pdfPath

\* C22: a 4000 x 3000 image gets, from the server and from the device, a
\* 595 x 842 page, a draw rectangle 595 wide and 446.25 high, that is the
\* source scaled by 0.14875, at x = 0 and y = 197.875.
C22_Landscape4000x3000 ==
  (layout.width = 4000 /\ layout.height = 3000) =>
    \A g \in Geometries : g.drawn =>
      /\ g.pageWidth = 595 /\ g.pageHeight = 842
      /\ g.scaledWidth = Whole(595)
      /\ g.scaledHeight = Rat(44625, 100)
      /\ RatDiv(g.scaledWidth, Whole(4000)) = Rat(14875, 100000)
      /\ RatDiv(g.scaledHeight, Whole(3000)) = Rat(14875, 100000)
      /\ g.x = Whole(0)
      /\ g.y = Rat(197875, 1000)

\* the 4000 x 3000 image was laid out by both converters, the server after
\* sharp shrank it to 2480 x 1860
C22_Witness ==
  /\ layout.width = 4000 /\ layout.height = 3000
  /\ layout.server.drawn /\ layout.client.drawn
  /\ layout.server.imageWidth = 2480 /\ layout.server.imageHeight = 1860
  /\ layout.client.imageWidth = 4000

\* retrieval r has sent the whole file of record id under status 200
FullySent(r, id) ==
  /\ req[r].kind = "get" /\ req[r].id = id
  /\ \/ req[r].pc \in {"stream", "purge"} /\ WholeFileSent(req[r])
     \/ req[r].pc = "done" /\ req[r].result = "delivered"

\* C23: for any record, at most one retrieval sends the whole PDF with
\* status 200.
C23_SingleUse ==
  \A id \in Ids : \A r1, r2 \in Reqs :
    (FullySent(r1, id) /\ FullySent(r2, id)) => r1 = r2

\* C24: when no request is in flight, every record's file is stored and
\* every stored file has a record.
C24_RecordIffFile ==
  (\A r \in Reqs : req[r].kind = "idle") =>
    /\ \A c \in records : existsSync(c.pdfPath)
    /\ \A p \in Paths : existsSync(p) => \E c \in records : c.pdfPath = p

\* C29: after the timeout has rejected a conversion, no step of that
\* conversion writes a file.
C29_LateEndWritesNothing ==
  [][\A r \in Reqs : (TimedOut(r) /\ Steps(r)) => files' = files]_vars

\* the response of the retrieval in slot r has been ended, or the client has
\* gone
Ended(r) ==
  \/ req[r].kind # "get"
  \/ req[r].pc \in {"done", "purge"}
  \/ req[r].pc = "stream" /\ req[r].resEnded

\* C27: every getPDF request eventually has its response ended.
C27_ResponseEnds ==
  \A r \in Reqs : (req[r].kind = "get") ~> Ended(r)

\* the answer in slot r carried the bytes of a stored PDF
GotBytes(r) ==
  /\ req[r].kind \in {"get", "static"} /\ req[r].pc = "done"
  /\ req[r].result = "delivered"

\* C26: whoever is answered with the bytes of a stored PDF is an
\* authenticated caller answered by getPDF, the only route that checks the
\* owner and purges.
C26_OnlyOwnerGetsBytes ==
  \A r \in Reqs : GotBytes(r) => (req[r].kind = "get" /\ req[r].user # NoUser)

\* ------------------------------------------------------------------ device
\* C28: base64ToUint8Array(uint8ArrayToBase64(b)) has the length and the
\* bytes of b, for every byte sequence b.
C28_Base64RoundTrip ==
  codec.stage = "decoded" =>
    /\ codec.decoded.ok
    /\ Len(codec.decoded.bytes) = Len(codec.bytes)
    /\ codec.decoded.bytes = codec.bytes

\* C30: whenever no AuthContext call and no interceptor is at work,
\* isAuthenticated is true if and only if AsyncStorage holds both a token and
\* a user.
C30_MemoryAgreesWithStorage ==
  (session.op = "idle" /\ session.intercept = "idle" /\ ~session.loading) =>
    (isAuthenticated <=>
       (session.storedToken # Nothing /\ session.storedUser # Nothing))

\* the token the request carries: the one of a 'Bearer <token>' header or,
\* when the header yields none, the string 'token' parameter
CarriedToken ==
  IF /\ Len(gate.authorization) = 2
     /\ gate.authorization[1] = "Bearer" /\ gate.authorization[2] # ""
    THEN gate.authorization[2]
  ELSE IF gate.query.kind = "string" THEN gate.query.value
  ELSE ""

\* the tokens signed by the server and still valid, with their subjects
Subject == [t \in {"u1.ok", "u2.ok"} |-> IF t = "u1.ok" THEN "u1" ELSE "u2"]

HandlerRan ==
  \E i \in 1..Len(gate.ran) :
    gate.ran[i] \in {"uploadPDFFile", "convertToPDF", "getConversions",
                     "getPDF", "deleteConversion"}

\* C25: past authenticateToken, a request goes on to the upload middleware
\* and the handler exactly when the token it carries is a valid one, and then
\* as that token's subject; any other request is answered 401 with nothing
\* but authenticateToken having run.
C25_OnlyAcceptedTokensPass ==
  /\ HandlerRan =>
       /\ CarriedToken \in DOMAIN Subject
       /\ gate.user = Subject[CarriedToken]
  /\ gate.stage # "received" =>
       IF CarriedToken \in DOMAIN Subject
         THEN gate.status # 401 /\ gate.user = Subject[CarriedToken]
         ELSE /\ gate.stage = "answered" /\ gate.status = 401
              /\ gate.ran = <<"authenticateToken">>
              /\ gate.user = NoUser

\* a request with no usable header and a valid token parameter reaches getPDF
C25_Witness ==
  /\ gate.stage = "handled" /\ gate.route = "getPDF"
  /\ gate.authorization = <<"Bearer", "">>
  /\ gate.query = [kind |-> "string", value |-> "u2.ok"]
  /\ gate.user = "u2"

====
